---- MODULE Spec2Model ----
(***************************************************************************)
(* Model of scripts/generate_sphere.py: the entry point (__main__), which  *)
(* checks/creates the directory "public" and calls generate_sphere_glb,    *)
(* and the generator itself, which builds a UV sphere and exports it.      *)
(* The filesystem is shared state; every statement of the script that      *)
(* touches it is one step, so that two instances of the script interleave  *)
(* at the granularity of the system calls.                                 *)
(***************************************************************************)
EXTENDS Integers, Sequences, FiniteSets

\* ---------------------------------------------------------------- bounds
Procs == {1, 2}
MaxRuns == 2
MaxCalls == 2

\* ------------------------------------------------------------- constants
DefaultRadius == 10
DefaultSubdivisions == 4
FixedCount == <<64, 64>>

\* ------------------------------------------------------------ paths
\* A path is the sequence of its components; <<>> is the working directory.
PublicDir == <<"public">>
TmpDir == <<"tmp">>
PublicFile == <<"public", "360_sphere.glb">>
TmpFile == <<"tmp", "unit.glb">>
CwdFile == <<"360_sphere.glb">>
OtherFile == <<"public", "other.bin">>
AllFiles == {PublicFile, TmpFile, CwdFile, OtherFile}
AllDirs == {PublicDir, TmpDir}

\* os.path.join(output_dir, name)
joinFlat(d, n) == <<n>>
join(d, n) == Append(d, n)

\* directory that contains a path (what open() needs to exist)
dirname(path) == SubSeq(path, 1, Len(path) - 1)

\* os.path.exists on a directory: the working directory always exists
exists(d, ds) == d = <<>> \/ d \in ds

\* os.makedirs: the leaf and every missing ancestor
makedirs(d, ds) == ds \cup {SubSeq(d, 1, k) : k \in 1..Len(d)}

\* ------------------------------------------------------------ values
NoFile == [kind |-> "none"]
Partial == [kind |-> "partial"]
OldAsset == [kind |-> "glb", radius |-> 1, count |-> <<8, 8>>, vertices |-> 64, faces |-> 98]
OtherData == [kind |-> "bin"]
NoMesh == [kind |-> "nomesh"]

\* trimesh.creation.uv_sphere(radius, count): a count[1] x count[2] grid of
\* latitude/longitude samples, two triangles per grid cell. The library is
\* not part of the script; its counts are taken as this grid (what it does
\* to the poles and the seam afterwards is not modelled). What the script
\* decides is which count it passes.
uv_sphere(r, count) ==
  [kind |-> "mesh", radius |-> r, count |-> count,
   vertices |-> count[1] * count[2],
   faces |-> 2 * (count[1] - 1) * (count[2] - 1)]

\* sphere.export(path): the bytes of the GLB are a function of the mesh
Asset(m) ==
  [kind |-> "glb", radius |-> m.radius, count |-> m.count,
   vertices |-> m.vertices, faces |-> m.faces]

DefaultAsset == Asset(uv_sphere(DefaultRadius, FixedCount))

NoAttempts == [makedirs |-> 0, mesh |-> 0, export |-> 0]

VARIABLES
  dirs,          \* directories present on the filesystem
  files,         \* content of every file path (NoFile when absent)
  pc,            \* position of each instance in the script
  output_path,   \* argument of generate_sphere_glb
  radius,        \* argument of generate_sphere_glb
  subdivisions,  \* argument of generate_sphere_glb
  sphere,        \* the mesh local of generate_sphere_glb
  stdout,        \* lines printed by the current invocation
  exit,          \* exit status: -1 running or not started, 0, 1
  err,           \* the exception that ended the invocation
  attempts,      \* per invocation: how often each step was entered
  fault,         \* the environment made a step of this invocation fail
  startedWithDir,\* the output directory was present when the run started
  written,       \* what this invocation's export wrote
  runs,          \* invocations started by each instance
  last,          \* the instance invoked most recently
  dirs0,         \* filesystem at the start of the behaviour
  files0

vars == <<dirs, files, pc, output_path, radius, subdivisions, sphere, stdout,
          exit, err, attempts, fault, startedWithDir, written, runs, last,
          dirs0, files0>>

locals == <<output_path, radius, subdivisions>>

Terminal == {"idle", "done", "failed"}

InitFS ==
  /\ dirs \in SUBSET AllDirs
  /\ files \in [AllFiles -> {NoFile, OldAsset, OtherData}]
  /\ \A f \in AllFiles : files[f] # NoFile => exists(dirname(f), dirs)
  /\ files[OtherFile] \in {NoFile, OtherData}
  /\ \A f \in AllFiles \ {OtherFile} : files[f] \in {NoFile, OldAsset}
  /\ files[CwdFile] = NoFile
  /\ dirs0 = dirs
  /\ files0 = files

InitProcs ==
  /\ pc = [p \in Procs |-> "idle"]
  /\ output_path = [p \in Procs |-> <<>>]
  /\ radius = [p \in Procs |-> DefaultRadius]
  /\ subdivisions = [p \in Procs |-> DefaultSubdivisions]
  /\ sphere = [p \in Procs |-> NoMesh]
  /\ stdout = [p \in Procs |-> <<>>]
  /\ exit = [p \in Procs |-> -1]
  /\ err = [p \in Procs |-> "none"]
  /\ attempts = [p \in Procs |-> NoAttempts]
  /\ fault = [p \in Procs |-> FALSE]
  /\ startedWithDir = [p \in Procs |-> FALSE]
  /\ written = [p \in Procs |-> NoFile]
  /\ runs = [p \in Procs |-> 0]
  /\ last = 0

Init == InitFS /\ InitProcs

\* an uncaught exception: the interpreter exits with status 1
Raise(p, e) ==
  /\ pc' = [pc EXCEPT ![p] = "failed"]
  /\ exit' = [exit EXCEPT ![p] = 1]
  /\ err' = [err EXCEPT ![p] = e]

\* state of a fresh invocation
Fresh(p) ==
  /\ sphere' = [sphere EXCEPT ![p] = NoMesh]
  /\ stdout' = [stdout EXCEPT ![p] = <<>>]
  /\ exit' = [exit EXCEPT ![p] = -1]
  /\ err' = [err EXCEPT ![p] = "none"]
  /\ attempts' = [attempts EXCEPT ![p] = NoAttempts]
  /\ fault' = [fault EXCEPT ![p] = FALSE]
  /\ written' = [written EXCEPT ![p] = NoFile]
  /\ runs' = [runs EXCEPT ![p] = @ + 1]
  /\ last' = p

\* the script is launched: output_dir = "public"
Start(p) ==
  /\ pc[p] \in Terminal
  /\ runs[p] < MaxRuns
  /\ Fresh(p)
  /\ pc' = [pc EXCEPT ![p] = "check"]
  /\ startedWithDir' = [startedWithDir EXCEPT ![p] = exists(PublicDir, dirs)]
  /\ UNCHANGED <<dirs, files, locals, dirs0, files0>>

\* if not os.path.exists(output_dir):
CheckInverted(p) ==
  /\ pc[p] = "check"
  /\ pc' = [pc EXCEPT ![p] = IF exists(PublicDir, dirs) THEN "makedirs" ELSE "join"]
  /\ UNCHANGED <<dirs, files, locals, sphere, stdout, exit, err, attempts,
                 fault, startedWithDir, written, runs, last, dirs0, files0>>

CheckSkipped(p) ==
  /\ pc[p] = "check"
  /\ pc' = [pc EXCEPT ![p] = "makedirs"]
  /\ UNCHANGED <<dirs, files, locals, sphere, stdout, exit, err, attempts,
                 fault, startedWithDir, written, runs, last, dirs0, files0>>

Check(p) ==
  /\ pc[p] = "check"
  /\ pc' = [pc EXCEPT ![p] = IF exists(PublicDir, dirs) THEN "join" ELSE "makedirs"]
  /\ UNCHANGED <<dirs, files, locals, sphere, stdout, exit, err, attempts,
                 fault, startedWithDir, written, runs, last, dirs0, files0>>

\* os.makedirs(output_dir): FileExistsError when the directory is there by
\* now, PermissionError when the platform refuses
Makedirs(p) ==
  /\ pc[p] = "makedirs"
  /\ attempts' = [attempts EXCEPT ![p].makedirs = @ + 1]
  /\ \/ /\ exists(PublicDir, dirs)
        /\ Raise(p, "FileExistsError")
        /\ UNCHANGED <<dirs, fault>>
     \/ /\ ~exists(PublicDir, dirs)
        /\ dirs' = makedirs(PublicDir, dirs)
        /\ pc' = [pc EXCEPT ![p] = "join"]
        /\ UNCHANGED <<exit, err, fault>>
     \/ /\ ~exists(PublicDir, dirs)
        /\ Raise(p, "PermissionError")
        /\ fault' = [fault EXCEPT ![p] = TRUE]
        /\ UNCHANGED dirs
  /\ UNCHANGED <<files, locals, sphere, stdout, startedWithDir, written,
                 runs, last, dirs0, files0>>

\* output_file = os.path.join(output_dir, "360_sphere.glb")
\* generate_sphere_glb(output_file)   -- radius and subdivisions default
Join(p) ==
  /\ pc[p] = "join"
  /\ output_path' = [output_path EXCEPT ![p] = join(PublicDir, "360_sphere.glb")]
  /\ radius' = [radius EXCEPT ![p] = DefaultRadius]
  /\ subdivisions' = [subdivisions EXCEPT ![p] = DefaultSubdivisions]
  /\ pc' = [pc EXCEPT ![p] = "mesh"]
  /\ UNCHANGED <<dirs, files, sphere, stdout, exit, err, attempts, fault,
                 startedWithDir, written, runs, last, dirs0, files0>>

\* sphere = trimesh.creation.uv_sphere(radius=radius, count=[64, 64])
\* the library may raise (out of memory): the exception propagates
BuildMeshSwallow(p) ==
  /\ pc[p] = "mesh"
  /\ attempts' = [attempts EXCEPT ![p].mesh = @ + 1]
  /\ \/ /\ sphere' = [sphere EXCEPT ![p] = uv_sphere(radius[p], FixedCount)]
        /\ pc' = [pc EXCEPT ![p] = "export"]
        /\ UNCHANGED <<exit, err, fault>>
     \/ /\ pc' = [pc EXCEPT ![p] = "export"]
        /\ sphere' = [sphere EXCEPT ![p] = uv_sphere(0, FixedCount)]
        /\ fault' = [fault EXCEPT ![p] = TRUE]
        /\ err' = [err EXCEPT ![p] = "MemoryError"]
        /\ UNCHANGED exit
  /\ UNCHANGED <<dirs, files, locals, stdout, startedWithDir, written,
                 runs, last, dirs0, files0>>

BuildMeshRadiusCount(p) ==
  /\ pc[p] = "mesh"
  /\ attempts' = [attempts EXCEPT ![p].mesh = @ + 1]
  /\ \/ /\ sphere' = [sphere EXCEPT ![p] = uv_sphere(radius[p], <<radius[p], 64>>)]
        /\ pc' = [pc EXCEPT ![p] = "export"]
        /\ UNCHANGED <<exit, err, fault>>
     \/ /\ Raise(p, "MemoryError")
        /\ fault' = [fault EXCEPT ![p] = TRUE]
        /\ UNCHANGED sphere
  /\ UNCHANGED <<dirs, files, locals, stdout, startedWithDir, written,
                 runs, last, dirs0, files0>>

BuildMesh(p) ==
  /\ pc[p] = "mesh"
  /\ attempts' = [attempts EXCEPT ![p].mesh = @ + 1]
  /\ \/ /\ sphere' = [sphere EXCEPT ![p] = uv_sphere(radius[p], FixedCount)]
        /\ pc' = [pc EXCEPT ![p] = "export"]
        /\ UNCHANGED <<exit, err, fault>>
     \/ /\ Raise(p, "MemoryError")
        /\ fault' = [fault EXCEPT ![p] = TRUE]
        /\ UNCHANGED sphere
  /\ UNCHANGED <<dirs, files, locals, stdout, startedWithDir, written,
                 runs, last, dirs0, files0>>

\* sphere.export(output_path): opens the path for writing (truncating what
\* is there) and writes the GLB. FileNotFoundError when the containing
\* directory is missing; an OSError in the middle of the write leaves a
\* truncated file.
ExportNoOverwrite(p) ==
  /\ pc[p] = "export"
  /\ attempts' = [attempts EXCEPT ![p].export = @ + 1]
  /\ \/ /\ ~exists(dirname(output_path[p]), dirs)
        /\ Raise(p, "FileNotFoundError")
        /\ UNCHANGED <<files, written, fault>>
     \/ /\ exists(dirname(output_path[p]), dirs)
        /\ files' = [files EXCEPT ![output_path[p]] =
                       IF @ = NoFile THEN Asset(sphere[p]) ELSE @]
        /\ written' = [written EXCEPT ![p] = Asset(sphere[p])]
        /\ pc' = [pc EXCEPT ![p] = "print"]
        /\ UNCHANGED <<exit, err, fault>>
     \/ /\ exists(dirname(output_path[p]), dirs)
        /\ files' = [files EXCEPT ![output_path[p]] = Partial]
        /\ written' = [written EXCEPT ![p] = Partial]
        /\ Raise(p, "OSError")
        /\ fault' = [fault EXCEPT ![p] = TRUE]
  /\ UNCHANGED <<dirs, locals, sphere, stdout, startedWithDir, runs, last,
                 dirs0, files0>>

ExportNothing(p) ==
  /\ pc[p] = "export"
  /\ attempts' = [attempts EXCEPT ![p].export = @ + 1]
  /\ pc' = [pc EXCEPT ![p] = "print"]
  /\ UNCHANGED <<dirs, files, locals, sphere, stdout, exit, err, fault,
                 startedWithDir, written, runs, last, dirs0, files0>>

Export(p) ==
  /\ pc[p] = "export"
  /\ attempts' = [attempts EXCEPT ![p].export = @ + 1]
  /\ \/ /\ ~exists(dirname(output_path[p]), dirs)
        /\ Raise(p, "FileNotFoundError")
        /\ UNCHANGED <<files, written, fault>>
     \/ /\ exists(dirname(output_path[p]), dirs)
        /\ files' = [files EXCEPT ![output_path[p]] = Asset(sphere[p])]
        /\ written' = [written EXCEPT ![p] = Asset(sphere[p])]
        /\ pc' = [pc EXCEPT ![p] = "print"]
        /\ UNCHANGED <<exit, err, fault>>
     \/ /\ exists(dirname(output_path[p]), dirs)
        /\ files' = [files EXCEPT ![output_path[p]] = Partial]
        /\ written' = [written EXCEPT ![p] = Partial]
        /\ Raise(p, "OSError")
        /\ fault' = [fault EXCEPT ![p] = TRUE]
  /\ UNCHANGED <<dirs, locals, sphere, stdout, startedWithDir, runs, last,
                 dirs0, files0>>

\* print(f"Sphere GLB generated at: {output_path}"); the generator returns
\* and the caller ends with status 0
Confirmation(p) ==
  /\ pc[p] = "print"
  /\ stdout' = [stdout EXCEPT ![p] = Append(@, output_path[p])]
  /\ pc' = [pc EXCEPT ![p] = "done"]
  /\ exit' = [exit EXCEPT ![p] = 0]
  /\ UNCHANGED <<dirs, files, locals, sphere, err, attempts, fault,
                 startedWithDir, written, runs, last, dirs0, files0>>

Next ==
  \/ \E p \in Procs : Start(p)
  \/ \E p \in Procs : Check(p)
  \/ \E p \in Procs : Makedirs(p)
  \/ \E p \in Procs : Join(p)
  \/ \E p \in Procs : BuildMesh(p)
  \/ \E p \in Procs : Export(p)
  \/ \E p \in Procs : Confirmation(p)

\* instances of the script running against one working directory
Spec == Init /\ [][Next]_vars

\* ----------------------------------------------------------------------
\* The generator called directly, one call after the other, with arguments
\* of the caller's choice (generate_sphere_glb(output_path, radius,
\* subdivisions)).
GenPaths == {PublicFile, TmpFile}
GenRadii == {1, 10}
GenSubdivisions == {2, 4}

Call(p, path, r, s) ==
  /\ \A q \in Procs : pc[q] \in Terminal
  /\ runs[1] + runs[2] < MaxCalls
  /\ Fresh(p)
  /\ output_path' = [output_path EXCEPT ![p] = path]
  /\ radius' = [radius EXCEPT ![p] = r]
  /\ subdivisions' = [subdivisions EXCEPT ![p] = s]
  /\ startedWithDir' = [startedWithDir EXCEPT ![p] = exists(dirname(path), dirs)]
  /\ pc' = [pc EXCEPT ![p] = "mesh"]
  /\ UNCHANGED <<dirs, files, dirs0, files0>>

NextGen ==
  \/ \E p \in Procs, path \in GenPaths, r \in GenRadii, s \in GenSubdivisions :
       Call(p, path, r, s)
  \/ \E p \in Procs : BuildMesh(p)
  \/ \E p \in Procs : Export(p)
  \/ \E p \in Procs : Confirmation(p)

SpecGen == Init /\ [][NextGen]_vars

TypeOK ==
  /\ dirs \subseteq AllDirs
  /\ DOMAIN files = AllFiles
  /\ pc \in [Procs -> {"idle", "check", "makedirs", "join", "mesh", "export",
                       "print", "done", "failed"}]
  /\ exit \in [Procs -> {-1, 0, 1}]
  /\ runs \in [Procs -> Nat]

\* ----------------------------------------------------------------------
\* Properties

Built(p) == sphere[p] # NoMesh

DirErrors == {"FileExistsError", "PermissionError"}

\* C1: whenever an instance of the script is at the export step, or has
\* written, the directory that contains output_path exists.
C1_DirBeforeExport ==
  \A p \in Procs :
    /\ pc[p] = "export" => exists(dirname(output_path[p]), dirs)
    /\ written[p] # NoFile => exists(dirname(output_path[p]), dirs)

C1_Witness ==
  \E p \in Procs : pc[p] = "export" /\ ~startedWithDir[p] /\ PublicDir \notin dirs0

\* C2: a call of the generator that ends without an environment fault ends
\* with the parent directory of output_path and the asset both present,
\* whatever output_path is and whether or not the directory was there.
C2_GeneratorCreatesDir ==
  \A p \in Procs :
    (last = p /\ pc[p] \in {"done", "failed"} /\ ~fault[p]) =>
      /\ exists(dirname(output_path[p]), dirs)
      /\ files[output_path[p]] = Asset(sphere[p])

\* C3: a run that starts with the output directory present never enters
\* the directory creation, ends without error unless the environment makes
\* a later step fail, and a completed run has written the same asset
\* whether it started with the directory present or absent.
C3_IdempotentDir ==
  /\ \A p \in Procs :
       (runs[p] > 0 /\ startedWithDir[p]) =>
         /\ attempts[p].makedirs = 0
         /\ err[p] \notin DirErrors
         /\ ~fault[p] => err[p] = "none"
  /\ \A p, q \in Procs :
       (pc[p] = "done" /\ pc[q] = "done") => written[p] = written[q]

C3_Witness ==
  \E p, q \in Procs :
    /\ pc[p] = "done" /\ pc[q] = "done"
    /\ startedWithDir[p] /\ ~startedWithDir[q]
    /\ attempts[q].makedirs = 1

\* C4: after sequential calls with the same output_path the file at that
\* path holds the asset of the most recent call, and a file that is
\* already there makes no call fail.
C4_Overwrite ==
  \A p \in Procs :
    /\ (last = p /\ pc[p] \in {"print", "done"}) =>
          files[output_path[p]] = Asset(sphere[p])
    /\ (runs[p] > 0 /\ startedWithDir[p] /\ ~fault[p]) => err[p] = "none"

C4_Witness ==
  \E p, q \in Procs :
    /\ p # q /\ last = p
    /\ pc[p] = "done" /\ pc[q] = "done"
    /\ output_path[p] = output_path[q]
    /\ radius[p] # radius[q]
    /\ written[q] = Asset(sphere[q])

\* C5: of two generator calls with the same radius and output_path, the
\* one with the larger subdivisions builds a mesh with strictly more
\* vertices and faces.
C5_ResolutionMonotone ==
  \A p, q \in Procs :
    (/\ Built(p) /\ Built(q)
     /\ radius[p] = radius[q]
     /\ output_path[p] = output_path[q]
     /\ subdivisions[p] < subdivisions[q]) =>
      /\ sphere[p].vertices < sphere[q].vertices
      /\ sphere[p].faces < sphere[q].faces

\* C6: every step is entered at most once per invocation; after a failed
\* step no later step is entered, nothing more is written or printed and
\* the run ends with status 1; status 0 only after a completed export.
C6_FailFast ==
  \A p \in Procs :
    /\ attempts[p].makedirs <= 1
    /\ attempts[p].mesh <= 1
    /\ attempts[p].export <= 1
    /\ err[p] # "none" => (pc[p] = "failed" /\ exit[p] = 1 /\ stdout[p] = <<>>)
    /\ fault[p] => pc[p] = "failed"
    /\ pc[p] = "failed" => exit[p] = 1
    /\ err[p] \in DirErrors =>
         (attempts[p].mesh = 0 /\ attempts[p].export = 0 /\ written[p] = NoFile)
    /\ err[p] = "MemoryError" => (attempts[p].export = 0 /\ written[p] = NoFile)
    /\ exit[p] = 0 =>
         (attempts[p].export = 1 /\ written[p] = Asset(sphere[p]) /\ err[p] = "none")

C6_Witness ==
  \E p, q \in Procs :
    /\ pc[p] = "failed" /\ err[p] = "MemoryError" /\ attempts[p].makedirs = 1
    /\ pc[q] = "failed" /\ err[q] = "PermissionError"

\* C7: the script adds no directory but public/, changes no file but
\* public/360_sphere.glb, exports at most once per invocation, and a
\* completed invocation has written the radius-10, 64x64 asset there.
C7_Frame ==
  /\ dirs0 \subseteq dirs
  /\ dirs \subseteq dirs0 \cup {PublicDir}
  /\ \A f \in AllFiles \ {PublicFile} : files[f] = files0[f]
  /\ \A p \in Procs :
       /\ attempts[p].export <= 1
       /\ written[p] # NoFile => output_path[p] = PublicFile
       /\ pc[p] = "done" =>
            /\ attempts[p].export = 1
            /\ written[p] = Asset(uv_sphere(10, <<64, 64>>))

C7_Witness ==
  \E p \in Procs :
    /\ pc[p] = "done"
    /\ PublicDir \notin dirs0
    /\ TmpDir \in dirs0
    /\ files[PublicFile] = DefaultAsset

\* C8: of two instances of the script run concurrently, none fails in the
\* directory step because the other created the directory, and an instance
\* that no environment fault hits runs to completion.
C8_RaceLastWriterWins ==
  \A p \in Procs :
    /\ err[p] # "FileExistsError"
    /\ ~fault[p] => pc[p] # "failed"

\* C9: at most one confirmation line per invocation; it names the path
\* given to the export, and it is there only after that export has
\* completed, with a file present at the path.
C9_Confirmation ==
  \A p \in Procs :
    /\ Len(stdout[p]) <= 1
    /\ stdout[p] # <<>> =>
         /\ stdout[p][1] = output_path[p]
         /\ attempts[p].export = 1
         /\ written[p] = Asset(sphere[p])
         /\ files[stdout[p][1]] # NoFile

C9_Witness ==
  \E p \in Procs :
    /\ Len(stdout[p]) = 1
    /\ files0[PublicFile] = NoFile
    /\ files[PublicFile] = DefaultAsset

\* C10: two generator calls with the same resolution argument build
\* meshes with the same vertex and face counts, whatever their radius,
\* output_path and the filesystem they started from.
C10_Determinism ==
  \A p, q \in Procs :
    (Built(p) /\ Built(q) /\ subdivisions[p] = subdivisions[q]) =>
      /\ sphere[p].vertices = sphere[q].vertices
      /\ sphere[p].faces = sphere[q].faces

C10_Witness ==
  \E p, q \in Procs :
    /\ Built(p) /\ Built(q)
    /\ subdivisions[p] = subdivisions[q]
    /\ radius[p] # radius[q]
    /\ output_path[p] # output_path[q]
    /\ startedWithDir[p] /\ ~startedWithDir[q]

====
